---------------------------- MODULE Spec2Model ----------------------------
(***************************************************************************)
(* Personal finance tracker (Django app "core"): the data store            *)
(* (Category, Transaction, Budget), the aggregation services, the CSV      *)
(* export/import services and the views that call them.                    *)
(*                                                                         *)
(* Conventions                                                             *)
(*  - a string is a sequence of one-character strings, so that strip(),    *)
(*    strftime(), fromisoformat(), str(Decimal) and Decimal(str) are       *)
(*    computed character by character;                                     *)
(*  - a date is a record [year, month, day];                               *)
(*  - a Decimal amount of a DecimalField(decimal_places=2) is the integer  *)
(*    number of hundredths (cents);                                        *)
(*  - the Cyrillic labels are transliterated: 'Доход' is "Dohod",          *)
(*    'Расход' is "Rashod", 'Еда' is "Eda", 'ЗП' is "ZP";                  *)
(*  - one request is served at a time: a view runs when no response is     *)
(*    pending, and Deliver hands the response to the client; only the      *)
(*    specification of concurrent budget submissions runs two worker       *)
(*    processes, each between its SELECT and its write.                    *)
(***************************************************************************)
EXTENDS Integers, Sequences, FiniteSets, TLC

VARIABLES
    categories,     \* table core_category: set of [id, name, type, user]
    transactions,   \* table core_transaction: set of [id, user, amount, category, description, date]
    budgets,        \* table core_budget: set of [id, user, category, amount, month]
    response,       \* what the view that ran last returned (NoResponse when idle)
    inflight        \* the budget_list POST each worker process is serving, if any

vars == <<categories, transactions, budgets, response, inflight>>

---------------------------------------------------------------------------
(* Bounds of the model *)

MaxTx == 2          \* rows of core_transaction
MaxBudgets == 1     \* distinct (user, category, month) keys of core_budget
MaxRows == 2        \* data rows of an uploaded CSV file (after the first row)

---------------------------------------------------------------------------
(* Strings *)

Whitespace == {" ", "\t"}

RECURSIVE lstrip(_)
lstrip(s) ==
    IF s = <<>> THEN <<>>
    ELSE IF Head(s) \in Whitespace THEN lstrip(Tail(s)) ELSE s

RECURSIVE rstrip(_)
rstrip(s) ==
    IF s = <<>> THEN <<>>
    ELSE IF s[Len(s)] \in Whitespace THEN rstrip(SubSeq(s, 1, Len(s) - 1)) ELSE s

\* str.strip()
strip(s) == rstrip(lstrip(s))

DigitChars == <<"0", "1", "2", "3", "4", "5", "6", "7", "8", "9">>

IsDigit(c) == \E i \in 1..10 : DigitChars[i] = c

DigitVal(c) == (CHOOSE i \in 1..10 : DigitChars[i] = c) - 1

AllDigits(s) == \A i \in 1..Len(s) : IsDigit(s[i])

RECURSIVE DigitsToNat(_)
DigitsToNat(s) ==
    IF s = <<>> THEN 0
    ELSE 10 * DigitsToNat(SubSeq(s, 1, Len(s) - 1)) + DigitVal(s[Len(s)])

RECURSIVE NatToDigits(_)
NatToDigits(n) ==
    IF n < 10 THEN <<DigitChars[n + 1]>>
    ELSE NatToDigits(n \div 10) \o <<DigitChars[(n % 10) + 1]>>

RECURSIVE Pow10(_)
Pow10(n) == IF n = 0 THEN 1 ELSE 10 * Pow10(n - 1)

\* zero-padded decimal of width w (the %m, %d, %Y fields of strftime)
ZeroPad(n, w) ==
    LET d == NatToDigits(n)
    IN  IF Len(d) >= w THEN d ELSE [i \in 1..(w - Len(d)) |-> "0"] \o d

---------------------------------------------------------------------------
(* datetime.date *)

Date(y, m, d) == [year |-> y, month |-> m, day |-> d]

IsLeap(y) == (y % 4 = 0 /\ y % 100 # 0) \/ y % 400 = 0

DaysInMonth(y, m) ==
    IF m = 2 THEN (IF IsLeap(y) THEN 29 ELSE 28)
    ELSE IF m \in {4, 6, 9, 11} THEN 30 ELSE 31

DateLT(a, b) ==
    \/ a.year < b.year
    \/ a.year = b.year /\ a.month < b.month
    \/ a.year = b.year /\ a.month = b.month /\ a.day < b.day

DateLE(a, b) == a = b \/ DateLT(a, b)

\* d - date.resolution (one day back)
MinusOneDay(d) ==
    IF d.day > 1 THEN Date(d.year, d.month, d.day - 1)
    ELSE IF d.month > 1
         THEN Date(d.year, d.month - 1, DaysInMonth(d.year, d.month - 1))
         ELSE Date(d.year - 1, 12, 31)

\* d + relativedelta(months=1): the month moves on, the day is clipped
PlusOneMonth(d) ==
    LET y == IF d.month = 12 THEN d.year + 1 ELSE d.year
        m == IF d.month = 12 THEN 1 ELSE d.month + 1
        last == DaysInMonth(y, m)
    IN  Date(y, m, IF d.day > last THEN last ELSE d.day)

\* date.replace(day=1)
ReplaceDay1(d) == Date(d.year, d.month, 1)

\* date.strftime('%Y-%m-%d')
strftime(d) ==
    ZeroPad(d.year, 4) \o <<"-">> \o ZeroPad(d.month, 2) \o <<"-">> \o ZeroPad(d.day, 2)

\* date.fromisoformat(s): [ok, value]; ok = FALSE is ValueError
fromisoformat(s) ==
    IF /\ Len(s) = 10
       /\ s[5] = "-" /\ s[8] = "-"
       /\ AllDigits(SubSeq(s, 1, 4))
       /\ AllDigits(SubSeq(s, 6, 7))
       /\ AllDigits(SubSeq(s, 9, 10))
    THEN LET y == DigitsToNat(SubSeq(s, 1, 4))
             m == DigitsToNat(SubSeq(s, 6, 7))
             d == DigitsToNat(SubSeq(s, 9, 10))
         IN  IF y >= 1 /\ m \in 1..12 /\ d >= 1 /\ d <= DaysInMonth(y, m)
             THEN [ok |-> TRUE, value |-> Date(y, m, d)]
             ELSE [ok |-> FALSE, value |-> Date(1, 1, 1)]
    ELSE [ok |-> FALSE, value |-> Date(1, 1, 1)]

---------------------------------------------------------------------------
(* decimal.Decimal of a DecimalField(max_digits=12, decimal_places=2) *)

\* str(amount) of a stored amount: sign, integer part, '.', two digits
DecimalToStr(cents) ==
    LET a == IF cents < 0 THEN -cents ELSE cents
    IN  (IF cents < 0 THEN <<"-">> ELSE <<>>)
        \o NatToDigits(a \div 100) \o <<".">> \o ZeroPad(a % 100, 2)

\* position of the first '.' in s, 0 when there is none
DotPos(s) ==
    IF \E i \in 1..Len(s) : s[i] = "."
    THEN CHOOSE i \in 1..Len(s) : s[i] = "." /\ \A j \in 1..(i - 1) : s[j] # "."
    ELSE 0

\* the stored value of n / 10^scale, quantized to two places, ROUND_HALF_EVEN
Quantize(n, scale) ==
    IF scale <= 2 THEN n * Pow10(2 - scale)
    ELSE LET p == Pow10(scale - 2)
             q == n \div p
             r == n % p
         IN  IF 2 * r > p \/ (2 * r = p /\ q % 2 = 1) THEN q + 1 ELSE q

\* (mutant) a string that is not a number is taken for 0
Decimal_lenient(s) ==
    LET neg == s # <<>> /\ Head(s) = "-"
        body == IF s # <<>> /\ Head(s) \in {"-", "+"} THEN Tail(s) ELSE s
        dot == DotPos(body)
        ip == IF dot = 0 THEN body ELSE SubSeq(body, 1, dot - 1)
        fp == IF dot = 0 THEN <<>> ELSE SubSeq(body, dot + 1, Len(body))
    IN  IF AllDigits(ip) /\ AllDigits(fp) /\ Len(ip) + Len(fp) > 0
        THEN LET mag == Quantize(DigitsToNat(ip \o fp), Len(fp))
             IN  [ok |-> TRUE, value |-> IF neg THEN -mag ELSE mag]
        ELSE [ok |-> TRUE, value |-> 0]

\* Decimal(s) as the store keeps it: [ok, value]; ok = FALSE is
\* decimal.InvalidOperation.  Grammar: [sign] digits ['.' [digits]] | [sign] '.' digits
Decimal(s) ==
    LET neg == s # <<>> /\ Head(s) = "-"
        body == IF s # <<>> /\ Head(s) \in {"-", "+"} THEN Tail(s) ELSE s
        dot == DotPos(body)
        ip == IF dot = 0 THEN body ELSE SubSeq(body, 1, dot - 1)
        fp == IF dot = 0 THEN <<>> ELSE SubSeq(body, dot + 1, Len(body))
    IN  IF AllDigits(ip) /\ AllDigits(fp) /\ Len(ip) + Len(fp) > 0
        THEN LET mag == Quantize(DigitsToNat(ip \o fp), Len(fp))
             IN  [ok |-> TRUE, value |-> IF neg THEN -mag ELSE mag]
        ELSE [ok |-> FALSE, value |-> 0]

---------------------------------------------------------------------------
(* models.py *)

INCOME == "income"
EXPENSE == "expense"

Users == {"u1", "u2"}

NameEda == <<"E", "d", "a">>
NameZP == <<"Z", "P">>
NameTaxi == <<"T">>

\* the row of a table with primary key pk
Row(table, pk) == CHOOSE r \in table : r.id = pk

HasRow(table, pk) == \E r \in table : r.id = pk

\* the primary key the store gives the next inserted row
NextId(table) ==
    IF table = {} THEN 1
    ELSE (CHOOSE n \in {r.id : r \in table} : \A r \in table : r.id <= n) + 1

\* Sum('amount') over a set of rows
RECURSIVE SumAmount(_)
SumAmount(rows) ==
    IF rows = {} THEN 0
    ELSE LET r == CHOOSE x \in rows : TRUE
         IN  r.amount + SumAmount(rows \ {r})

\* a value that is a number or Python's None
None == [isNone |-> TRUE, total |-> 0]
Number(n) == [isNone |-> FALSE, total |-> n]

\* .aggregate(total=Sum('amount'))['total']: None over no rows
Aggregate(rows) == IF rows = {} THEN None ELSE Number(SumAmount(rows))

\* (mutant) the `or 0` left out: the aggregate is used as it comes
OrZero_left_out(x) == x

\* `x or 0`: 0 when x is None or zero
OrZero(x) == IF x.isNone \/ x.total = 0 THEN Number(0) ELSE x

\* what a call gives: a returned value, or a raised exception
Returned(v) == [raised |-> FALSE, value |-> v]
Raised(e) == [raised |-> TRUE, value |-> [exception |-> e]]

\* date__range=[start, end]: BETWEEN, both ends included
InRange(d, start, end) == DateLE(start, d) /\ DateLE(d, end)

CategoryOf(t) == Row(categories, t.category)

NoResponse == [op |-> "none"]

\* every listing of the rows of a finite set, each row once
Listings(rows) ==
    LET n == Cardinality(rows)
    IN  {p \in [1..n -> rows] : \A r \in rows : \E i \in 1..n : p[i] = r}

---------------------------------------------------------------------------
(* services.py: aggregation *)

\* (mutant) the `end_date -= date.resolution` left out: the range ends on the
\* first day of the next month
MonthBounds_no_step_back(year, month) ==
    [start_date |-> Date(year, month, 1),
     end_date |-> IF month = 12 THEN Date(year + 1, 1, 1) ELSE Date(year, month + 1, 1)]

\* first and last day of the month as get_monthly_summary and
\* get_expense_breakdown_by_category compute them
MonthBounds(year, month) ==
    LET start_date == Date(year, month, 1)
        next_first == IF month = 12 THEN Date(year + 1, 1, 1)
                      ELSE Date(year, month + 1, 1)
    IN  [start_date |-> start_date, end_date |-> MinusOneDay(next_first)]

\* Transaction.objects.filter(user=user, category__type=type, date__range=[start, end])
FilterByType(user, type, start, end) ==
    {t \in transactions :
        /\ t.user = user
        /\ HasRow(categories, t.category)
        /\ CategoryOf(t).type = type
        /\ InRange(t.date, start, end)}

\* (mutant) the balance computed as income + expense
get_monthly_summary_plus(user, year, month) ==
    LET b == MonthBounds(year, month)
        income == OrZero(Aggregate(FilterByType(user, INCOME, b.start_date, b.end_date)))
        expense == OrZero(Aggregate(FilterByType(user, EXPENSE, b.start_date, b.end_date)))
    IN  IF income.isNone \/ expense.isNone THEN Raised("TypeError")
        ELSE Returned([income |-> income.total,
                       expense |-> expense.total,
                       balance |-> income.total + expense.total])

\* `income - expense` of two numbers is a number; with a None it is TypeError
get_monthly_summary(user, year, month) ==
    LET b == MonthBounds(year, month)
        income == OrZero(Aggregate(FilterByType(user, INCOME, b.start_date, b.end_date)))
        expense == OrZero(Aggregate(FilterByType(user, EXPENSE, b.start_date, b.end_date)))
    IN  IF income.isNone \/ expense.isNone THEN Raised("TypeError")
        ELSE Returned([income |-> income.total,
                       expense |-> expense.total,
                       balance |-> income.total - expense.total])

\* .values('category__name').annotate(total=Sum('amount')): one row per name
BreakdownRows(user, year, month) ==
    LET b == MonthBounds(year, month)
        rows == FilterByType(user, EXPENSE, b.start_date, b.end_date)
        names == {CategoryOf(t).name : t \in rows}
    IN  {[category__name |-> n,
          total |-> SumAmount({t \in rows : CategoryOf(t).name = n})] : n \in names}

\* (mutant) .order_by('total'): ascending
get_expense_breakdown_by_category_ascending(user, year, month) ==
    {Returned(p) : p \in
        {q \in Listings(BreakdownRows(user, year, month)) :
            \A i \in 1..Len(q) : \A j \in 1..Len(q) : i < j => q[i].total <= q[j].total}}

\* the results .order_by('-total') may give: every listing with the totals
\* non-increasing (the store orders equal totals as it likes)
get_expense_breakdown_by_category(user, year, month) ==
    {Returned(p) : p \in
        {q \in Listings(BreakdownRows(user, year, month)) :
            \A i \in 1..Len(q) : \A j \in 1..Len(q) : i < j => q[i].total >= q[j].total}}

\* first and last day of the month as get_budget_vs_actual computes them
BudgetMonthBounds(year, month) ==
    LET start_date == Date(year, month, 1)
    IN  [start_date |-> start_date, end_date |-> MinusOneDay(PlusOneMonth(start_date))]

\* the actual total get_budget_vs_actual computes for one budget row
BudgetActual(user, budget, start, end) ==
    OrZero(Aggregate({t \in transactions :
                         /\ t.user = user
                         /\ t.category = budget.category
                         /\ InRange(t.date, start, end)}))

\* (mutant) is_over_budget computed with >=
BudgetEntry_at_least(budget, actual) ==
    [category_name |-> Row(categories, budget.category).name,
     budget_amount |-> budget.amount,
     actual_amount |-> actual,
     difference |-> budget.amount - actual,
     is_over_budget |-> actual >= budget.amount]

\* the entry get_budget_vs_actual appends for one budget row
BudgetEntry(budget, actual) ==
    [category_name |-> Row(categories, budget.category).name,
     budget_amount |-> budget.amount,
     actual_amount |-> actual,
     difference |-> budget.amount - actual,
     is_over_budget |-> actual > budget.amount]

\* (mutant) the budgets are not filtered by month
BudgetsOfMonth_any_month(user, start) == {b \in budgets : b.user = user}

\* Budget.objects.filter(user=user, month=start_date)
BudgetsOfMonth(user, start) == {b \in budgets : b.user = user /\ b.month = start}

\* the lists get_budget_vs_actual may return: one entry per budget row of the
\* month, in the order the store yields the rows (the queryset is unordered)
\* (`budget.amount - actual` with actual None is TypeError)
get_budget_vs_actual(user, year, month) ==
    LET b == BudgetMonthBounds(year, month)
        rows == BudgetsOfMonth(user, b.start_date)
        actual(r) == BudgetActual(user, r, b.start_date, b.end_date)
    IN  IF \E r \in rows : actual(r).isNone THEN {Raised("TypeError")}
        ELSE {Returned([i \in 1..Len(p) |-> BudgetEntry(p[i], actual(p[i]).total)]) :
                 p \in Listings(rows)}

---------------------------------------------------------------------------
(* forms.py *)

\* (mutant) the form offers the categories of every user
TransactionFormQueryset_all(user) == categories

\* TransactionForm.__init__: the categories the form offers
TransactionFormQueryset(user) == {c \in categories : c.user = user}

\* (mutant) `if amount < 0`: zero passes
clean_amount_nonnegative(amount) == amount >= 0

\* TransactionForm.clean_amount
clean_amount(amount) == amount > 0

\* the description field of TransactionForm is a CharField: it strips
clean_description(description) == strip(description)

\* TransactionForm(data, user=user).is_valid()
TransactionFormValid(user, amount, category, description, date) ==
    /\ \E c \in TransactionFormQueryset(user) : c.id = category
    /\ clean_amount(amount)

\* BudgetForm.__init__: only the user's expense categories
BudgetFormQueryset(user) == {c \in categories : c.user = user /\ c.type = EXPENSE}

\* (mutant) the month is kept as submitted
clean_month_as_submitted(month) == month

\* BudgetForm.clean_month
clean_month(month) == ReplaceDay1(month)

\* BudgetForm(data, user=user).is_valid()
BudgetFormValid(user, category, amount, month) ==
    \E c \in BudgetFormQueryset(user) : c.id = category

---------------------------------------------------------------------------
(* views.py *)

Idle == response = NoResponse

\* the worker processes of the server, and a worker that serves no request
Workers == {"w1", "w2"}
NoRequest == [pc |-> "none"]

\* the response reaches the client; the next request may be served
Deliver ==
    /\ response # NoResponse
    /\ response' = NoResponse
    /\ UNCHANGED <<categories, transactions, budgets, inflight>>

\* POST /transactions/create/
transaction_create(user, amount, category, description, date) ==
    /\ Idle
    /\ Cardinality(transactions) < MaxTx
    /\ IF TransactionFormValid(user, amount, category, description, date)
       THEN /\ transactions' = transactions \cup
                   {[id |-> NextId(transactions),
                     user |-> user,
                     amount |-> amount,
                     category |-> category,
                     description |-> clean_description(description),
                     date |-> date]}
            /\ response' = [op |-> "transaction_create", user |-> user,
                            status |-> "redirect"]
       ELSE /\ transactions' = transactions
            /\ response' = [op |-> "transaction_create", user |-> user,
                            status |-> "form_errors"]
    /\ UNCHANGED <<categories, budgets, inflight>>

\* (mutant) the lookup of the existing row never finds one
ExistingBudget_not_found(user, category, month) == {}

\* Budget.objects.filter(user=, category=, month=).first(): the row of lowest pk
ExistingBudget(user, category, month) ==
    LET found == {b \in budgets :
                     b.user = user /\ b.category = category /\ b.month = month}
    IN  IF found = {} THEN {}
        ELSE {CHOOSE b \in found : \A o \in found : b.id <= o.id}

BudgetKeys == {<<b.user, b.category, b.month>> : b \in budgets}

\* (mutant) the store does not enforce the constraint
BudgetUniqueViolation_not_enforced(row) == FALSE

\* Budget.Meta.unique_together = ('user', 'category', 'month'): whether the
\* store refuses the insert of a row (IntegrityError)
BudgetUniqueViolation(row) ==
    \E b \in budgets :
        b.user = row.user /\ b.category = row.category /\ b.month = row.month

\* POST /budgets/
budget_list(user, category, amount, month) ==
    /\ Idle
    /\ Cardinality(BudgetKeys \cup {<<user, category, clean_month(month)>>}) <= MaxBudgets
    /\ IF BudgetFormValid(user, category, amount, month)
       THEN LET m == clean_month(month)
                existing == ExistingBudget(user, category, m)
                budget == [id |-> NextId(budgets), user |-> user,
                           category |-> category, amount |-> amount, month |-> m]
            IN  IF existing # {}
                THEN /\ budgets' =
                           {IF b \in existing THEN [b EXCEPT !.amount = amount] ELSE b :
                               b \in budgets}
                     /\ response' = [op |-> "budget_list", user |-> user,
                                     status |-> "redirect", message |-> "updated",
                                     category |-> category, amount |-> amount,
                                     month |-> m, submitted |-> month]
                ELSE IF BudgetUniqueViolation(budget)
                THEN /\ budgets' = budgets
                     /\ response' = [op |-> "budget_list", user |-> user,
                                     status |-> "error", message |-> "IntegrityError",
                                     category |-> category, amount |-> amount,
                                     month |-> m, submitted |-> month]
                ELSE /\ budgets' = budgets \cup {budget}
                     /\ response' = [op |-> "budget_list", user |-> user,
                                     status |-> "redirect", message |-> "set",
                                     category |-> category, amount |-> amount,
                                     month |-> m, submitted |-> month]
       ELSE /\ budgets' = budgets
            /\ response' = [op |-> "budget_list", user |-> user,
                            status |-> "form_errors"]
    /\ UNCHANGED <<categories, transactions, inflight>>

\* GET /reports/ on a day of (year, month)
reports_view(user, year, month) ==
    /\ Idle
    /\ LET summary == get_monthly_summary(user, year, month)
       IN  \E expense_data \in get_expense_breakdown_by_category(user, year, month) :
           \E budget_comparison \in get_budget_vs_actual(user, year, month) :
              response' =
                 IF summary.raised \/ expense_data.raised \/ budget_comparison.raised
                 THEN [op |-> "reports", user |-> user, year |-> year, month |-> month,
                       status |-> "error"]
                 ELSE [op |-> "reports", user |-> user, year |-> year, month |-> month,
                       status |-> "ok",
                       summary |-> summary.value,
                       expense_data |-> expense_data.value,
                       labels |-> [i \in 1..Len(expense_data.value) |->
                                      expense_data.value[i].category__name],
                       budget_comparison |-> budget_comparison.value]
    /\ UNCHANGED <<categories, transactions, budgets, inflight>>

---------------------------------------------------------------------------
(* The store after the users have created their categories (as the tests'   *)
(* setUp does): no transactions, no budgets.                                *)

SetUpCategories ==
    {[id |-> 1, name |-> NameEda, type |-> EXPENSE, user |-> "u1"],
     [id |-> 2, name |-> NameZP, type |-> INCOME, user |-> "u1"],
     [id |-> 3, name |-> NameTaxi, type |-> EXPENSE, user |-> "u1"],
     [id |-> 4, name |-> NameEda, type |-> EXPENSE, user |-> "u2"]}

Init ==
    /\ categories = SetUpCategories
    /\ transactions = {}
    /\ budgets = {}
    /\ response = NoResponse
    /\ inflight = [w \in Workers |-> NoRequest]

---------------------------------------------------------------------------
(* Monthly reports: transactions are entered and the report is read *)

ReportDates == {Date(2024, 11, 30), Date(2024, 12, 1), Date(2024, 12, 31), Date(2025, 1, 1)}
ReportMonths == {<<2024, 11>>, <<2024, 12>>, <<2025, 1>>}
ReportAmounts == {0, 100, 250}
CategoryIds == {1, 2, 3, 4}

NextReport ==
    \/ \E u \in Users, a \in ReportAmounts, c \in CategoryIds, d \in ReportDates :
          transaction_create(u, a, c, <<>>, d)
    \/ \E u \in Users, ym \in ReportMonths : reports_view(u, ym[1], ym[2])
    \/ Deliver

SpecReport == Init /\ [][NextReport]_vars

---------------------------------------------------------------------------
(* Properties of the monthly report *)

Years == {2024, 2025}
MonthNumbers == 1..12

\* a report page was rendered
Reported == response.op = "reports" /\ response.status = "ok"

\* the transactions of a user booked in calendar month (year, month) under a
\* category of the given type
BookedIn(user, type, year, month) ==
    {t \in transactions :
        /\ t.user = user
        /\ \E c \in categories : c.id = t.category /\ c.type = type
        /\ t.date.year = year /\ t.date.month = month}

\* C1: whatever the user, the month and the store, the summary that
\* get_monthly_summary returns to the reports page has
\* balance = income - expense (and the call does not fail).
C1_BalanceIsIncomeMinusExpense ==
    response.op = "reports" =>
        /\ response.status = "ok"
        /\ response.summary.balance = response.summary.income - response.summary.expense

\* a report that shows income and expense, both non-zero
C1_Witness ==
    /\ Reported
    /\ response.summary.income > 0
    /\ response.summary.expense > 0
    /\ response.summary.balance # response.summary.income

\* C2: get_monthly_summary returns as income (expense) the sum of the amounts
\* of exactly the user's income-type (expense-type) transactions dated in the
\* calendar month; the range it filters on runs from day 1 to the month's last
\* day (first day of the next month minus one day; December's ends on
\* 31 December of the same year), so the first and the last day count and the
\* adjacent months and the other users do not.
C2_SummarySumsTheMonth ==
    /\ Reported =>
          /\ response.summary.income =
                SumAmount(BookedIn(response.user, INCOME, response.year, response.month))
          /\ response.summary.expense =
                SumAmount(BookedIn(response.user, EXPENSE, response.year, response.month))
    /\ \A y \in Years, m \in MonthNumbers :
          LET b == MonthBounds(y, m)
          IN  /\ b.start_date = Date(y, m, 1)
              /\ b.end_date = Date(y, m, DaysInMonth(y, m))

\* a December report of a user who has a transaction on 31 December, which is
\* all the report counts, while the store also holds a transaction of
\* 1 January or of the other user
C2_Witness ==
    /\ Reported
    /\ response.month = 12
    /\ \E t \in transactions :
          /\ t.user = response.user /\ t.date = Date(2024, 12, 31)
          /\ response.summary.income + response.summary.expense = t.amount
    /\ \E t \in transactions : t.date = Date(2025, 1, 1) \/ t.user # response.user

\* C3: with no matching transaction in the month, get_monthly_summary returns
\* income 0, expense 0, balance 0 and raises nothing; with no data
\* get_expense_breakdown_by_category and get_budget_vs_actual return (empty)
\* results instead of raising.
C3_NoDataGivesZeros ==
    response.op = "reports" =>
        LET u == response.user
            y == response.year
            m == response.month
        IN  /\ response.status = "ok"
            /\ (BookedIn(u, INCOME, y, m) = {} /\ BookedIn(u, EXPENSE, y, m) = {}) =>
                  response.summary = [income |-> 0, expense |-> 0, balance |-> 0]
            /\ BookedIn(u, EXPENSE, y, m) = {} => response.expense_data = <<>>
            /\ {b \in budgets : b.user = u /\ b.month = Date(y, m, 1)} = {} =>
                  response.budget_comparison = <<>>

\* a report for a month in which the user has nothing, while the store holds
\* transactions of other months or users
C3_Witness ==
    /\ Reported
    /\ response.summary = [income |-> 0, expense |-> 0, balance |-> 0]
    /\ response.expense_data = <<>>
    /\ response.budget_comparison = <<>>
    /\ transactions # {}

\* the user's expense categories with a transaction dated in the month
ExpenseCategoriesUsed(user, year, month) ==
    {c \in categories :
        /\ c.user = user /\ c.type = EXPENSE
        /\ \E t \in BookedIn(user, EXPENSE, year, month) : t.category = c.id}

\* C6: get_expense_breakdown_by_category returns one entry per expense
\* category of the user with at least one transaction dated in the month, its
\* total the sum of that category's amounts in the month, totals in
\* non-increasing order; income categories and categories without a
\* transaction in the month do not appear.
C6_BreakdownPerCategoryDescending ==
    Reported =>
        LET u == response.user
            y == response.year
            m == response.month
            used == ExpenseCategoriesUsed(u, y, m)
            data == response.expense_data
        IN  /\ Len(data) = Cardinality(used)
            /\ \A c \in used : \E i \in 1..Len(data) :
                  /\ data[i].category__name = c.name
                  /\ data[i].total =
                        SumAmount({t \in BookedIn(u, EXPENSE, y, m) : t.category = c.id})
            /\ \A i \in 1..Len(data) : \E c \in used : data[i].category__name = c.name
            /\ \A i \in 1..(Len(data) - 1) : data[i].total >= data[i + 1].total

\* a report whose breakdown lists two categories with different totals while
\* the user also has income in the month
C6_Witness ==
    /\ Reported
    /\ Len(response.expense_data) = 2
    /\ response.expense_data[1].total > response.expense_data[2].total

---------------------------------------------------------------------------
(* Budgets: transactions are entered, budgets are set, the report is read *)

BudgetDates == {Date(2024, 12, 31), Date(2025, 1, 1)}
BudgetTxAmounts == {100}
BudgetTxCategories == {1, 3, 4}
BudgetAmounts == {100, 200}
BudgetMonthInputs == {Date(2024, 12, 1), Date(2024, 12, 15), Date(2025, 1, 1)}
BudgetReportMonths == {<<2024, 12>>, <<2025, 1>>}

NextBudget ==
    \/ \E u \in Users, a \in BudgetTxAmounts, c \in BudgetTxCategories, d \in BudgetDates :
          transaction_create(u, a, c, <<>>, d)
    \/ \E u \in Users, c \in CategoryIds, a \in BudgetAmounts, m \in BudgetMonthInputs :
          budget_list(u, c, a, m)
    \/ \E u \in Users, ym \in BudgetReportMonths : reports_view(u, ym[1], ym[2])
    \/ Deliver

SpecBudget == Init /\ [][NextBudget]_vars

\* the budget rows of a user for the month that starts on the given day
BudgetRowsFor(user, year, month) ==
    {b \in budgets : b.user = user /\ b.month = Date(year, month, 1)}

\* what the user spent in the month under one category
SpentIn(user, category, year, month) ==
    SumAmount({t \in BookedIn(user, EXPENSE, year, month) : t.category = category})

\* C4: get_budget_vs_actual returns exactly one entry for every budget row of
\* the user whose month is the first day of (year, month); in each entry
\* actual_amount is the total of the user's expense transactions of the
\* budget's category dated in that month, difference = budget_amount -
\* actual_amount, and is_over_budget is true exactly when actual_amount >
\* budget_amount.
C4_BudgetVsActualPerBudgetRow ==
    Reported =>
        LET u == response.user
            y == response.year
            m == response.month
            rows == BudgetRowsFor(u, y, m)
            result == response.budget_comparison
        IN  /\ Len(result) = Cardinality(rows)
            /\ \E p \in Listings(rows) : \A i \in 1..Len(result) :
                  LET actual == SpentIn(u, p[i].category, y, m)
                  IN  /\ result[i].category_name =
                            (CHOOSE c \in categories : c.id = p[i].category).name
                      /\ result[i].budget_amount = p[i].amount
                      /\ result[i].actual_amount = actual
                      /\ result[i].difference = p[i].amount - actual
                      /\ result[i].is_over_budget = (actual > p[i].amount)

\* a report with an entry whose actual spending equals the budget, and is
\* therefore not over budget, while the store holds further transactions the
\* entry does not count
C4_Witness ==
    /\ Reported
    /\ Len(response.budget_comparison) = 1
    /\ response.budget_comparison[1].actual_amount = 100
    /\ response.budget_comparison[1].budget_amount = 100
    /\ ~response.budget_comparison[1].is_over_budget
    /\ Cardinality(transactions) = 2

\* C5: a category with a budget for the month and no transaction in it
\* appears with actual_amount = 0; a category with transactions in the month
\* and no budget row for that month does not appear.
C5_BudgetWithoutSpendingAndSpendingWithoutBudget ==
    Reported =>
        LET u == response.user
            y == response.year
            m == response.month
            rows == BudgetRowsFor(u, y, m)
            result == response.budget_comparison
            NameOf(id) == (CHOOSE c \in categories : c.id = id).name
        IN  /\ \A b \in rows :
                  {t \in transactions : t.category = b.category
                       /\ t.date.year = y /\ t.date.month = m} = {} =>
                     \E i \in 1..Len(result) :
                        /\ result[i].category_name = NameOf(b.category)
                        /\ result[i].budget_amount = b.amount
                        /\ result[i].actual_amount = 0
            /\ \A c \in categories :
                  (/\ \E t \in transactions : t.user = u /\ t.category = c.id
                          /\ t.date.year = y /\ t.date.month = m
                   /\ \A b \in rows : NameOf(b.category) # c.name) =>
                     \A i \in 1..Len(result) : result[i].category_name # c.name

\* a report that lists a budgeted category without spending (actual 0) while
\* the user spent in the month under a category without a budget, which is
\* not listed
C5_Witness ==
    /\ Reported
    /\ Len(response.budget_comparison) = 1
    /\ response.budget_comparison[1].actual_amount = 0
    /\ \E t \in transactions :
          /\ t.user = response.user
          /\ t.date.year = response.year /\ t.date.month = response.month
          /\ \A b \in budgets : b.category # t.category

\* a budget_list POST whose form was valid has just been served
BudgetPosted == response.op = "budget_list" /\ response.status # "form_errors"

\* C7: the budget upsert is idempotent on (owner, category, month): every
\* valid budget_list POST leaves exactly one row for its key, holding the
\* submitted amount, leaves the rows of all other keys as they were and never
\* leaves two rows with one key; no other operation writes budgets.  Hence
\* after any sequence of submissions each submitted key has one row with the
\* amount submitted last.
C7_BudgetUpsert ==
    [][/\ Cardinality(budgets') = Cardinality(BudgetKeys')
       /\ IF BudgetPosted' /\ response' # response
          THEN LET u == response'.user
                   c == response'.category
                   m == response'.month
                   Other(bs) == {b \in bs : ~(b.user = u /\ b.category = c /\ b.month = m)}
               IN  /\ response'.status = "redirect"
                   /\ \E b \in budgets' :
                         /\ b.user = u /\ b.category = c /\ b.month = m
                         /\ b.amount = response'.amount
                         /\ budgets' \ Other(budgets') = {b}
                   /\ Other(budgets') = Other(budgets)
                   /\ response'.message = "updated" <=> budgets \ Other(budgets) # {}
          ELSE budgets' = budgets]_vars

\* a second submission for an existing key has updated its row
C7_Witness ==
    /\ response.op = "budget_list"
    /\ response.status = "redirect"
    /\ response.message = "updated"
    /\ \E b \in budgets :
          /\ b.user = response.user /\ b.category = response.category
          /\ b.month = response.month /\ b.amount = response.amount
    /\ Cardinality(budgets) = 1

---------------------------------------------------------------------------
(* The csv module (dialect excel): a file is a sequence of lines, a line a   *)
(* string without its terminator, a row a sequence of field strings.         *)
(* Fields that hold a line break are outside the model's alphabet.           *)

Join(a, b) == a \o <<",">> \o b

\* a field with every '"' doubled
RECURSIVE DoubleQuotes(_)
DoubleQuotes(s) ==
    IF s = <<>> THEN <<>>
    ELSE IF Head(s) = "\"" THEN <<"\"", "\"">> \o DoubleQuotes(Tail(s))
         ELSE <<Head(s)>> \o DoubleQuotes(Tail(s))

\* QUOTE_MINIMAL: a field is quoted when it holds the delimiter or the quote
\* character
WriteField(s) ==
    IF \E i \in 1..Len(s) : s[i] \in {",", "\""}
    THEN <<"\"">> \o DoubleQuotes(s) \o <<"\"">>
    ELSE s

RECURSIVE JoinFields(_)
JoinFields(fields) ==
    IF Len(fields) = 0 THEN <<>>
    ELSE IF Len(fields) = 1 THEN WriteField(fields[1])
    ELSE Join(WriteField(fields[1]), JoinFields(Tail(fields)))

\* csv.writer(...).writerow(fields): the line written (a row of one empty
\* field is written as "")
writerow(fields) ==
    IF fields = <<<<>>>> THEN <<"\"", "\"">> ELSE JoinFields(fields)

\* csv.reader on one line, from position i in parser state st with the open
\* field cur and the fields read so far
RECURSIVE ParseLine(_, _, _, _, _)
ParseLine(line, i, st, cur, fields) ==
    IF i > Len(line)
    THEN IF st = "START_RECORD" THEN fields ELSE Append(fields, cur)
    ELSE LET c == line[i]
         IN  CASE st \in {"START_RECORD", "START_FIELD"} ->
                    IF c = "\"" THEN ParseLine(line, i + 1, "IN_QUOTED_FIELD", <<>>, fields)
                    ELSE IF c = "," THEN ParseLine(line, i + 1, "START_FIELD", <<>>,
                                                   Append(fields, <<>>))
                    ELSE ParseLine(line, i + 1, "IN_FIELD", <<c>>, fields)
               [] st = "IN_FIELD" ->
                    IF c = "," THEN ParseLine(line, i + 1, "START_FIELD", <<>>,
                                              Append(fields, cur))
                    ELSE ParseLine(line, i + 1, "IN_FIELD", Append(cur, c), fields)
               [] st = "IN_QUOTED_FIELD" ->
                    IF c = "\"" THEN ParseLine(line, i + 1, "QUOTE_IN_QUOTED_FIELD", cur, fields)
                    ELSE ParseLine(line, i + 1, "IN_QUOTED_FIELD", Append(cur, c), fields)
               [] OTHER ->  \* QUOTE_IN_QUOTED_FIELD
                    IF c = "\"" THEN ParseLine(line, i + 1, "IN_QUOTED_FIELD",
                                               Append(cur, c), fields)
                    ELSE IF c = "," THEN ParseLine(line, i + 1, "START_FIELD", <<>>,
                                                   Append(fields, cur))
                    ELSE ParseLine(line, i + 1, "IN_FIELD", Append(cur, c), fields)

\* the row csv.reader yields for a line (an empty line yields the empty row)
ReadLine(line) == ParseLine(line, 1, "START_RECORD", <<>>, <<>>)

\* list(csv.reader(StringIO(content)))
reader(content) == [i \in 1..Len(content) |-> ReadLine(content[i])]

---------------------------------------------------------------------------
(* services.py: CSV export *)

Dohod == <<"D", "o", "h", "o", "d">>
Rashod == <<"R", "a", "s", "h", "o", "d">>

\* ['Дата', 'Тип', 'Категория', 'Сумма', 'Описание']
HeaderRow ==
    <<<<"D", "a", "t", "a">>, <<"T", "i", "p">>,
      <<"K", "a", "t", "e", "g", "o", "r", "i", "y", "a">>,
      <<"S", "u", "m", "m", "a">>,
      <<"O", "p", "i", "s", "a", "n", "i", "e">>>>

\* (mutant) the two labels the wrong way round
TypeLabel_swapped(type) == IF type = INCOME THEN Rashod ELSE Dohod

\* 'Доход' if t.category.type == Category.INCOME else 'Расход'
TypeLabel(type) == IF type = INCOME THEN Dohod ELSE Rashod

\* the row export_transactions_to_csv writes for a transaction (the writer
\* writes str(t.amount); `t.description or ''` of a string is the string)
ExportRow(t) ==
    <<strftime(t.date),
      TypeLabel(CategoryOf(t).type),
      CategoryOf(t).name,
      DecimalToStr(t.amount),
      t.description>>

\* (mutant) .order_by('date'): oldest first
NewestFirst_oldest_first(user) ==
    {p \in Listings({t \in transactions : t.user = user}) :
        \A i \in 1..Len(p) : \A j \in 1..Len(p) : i < j => DateLE(p[i].date, p[j].date)}

\* Transaction.objects.filter(user=user).order_by('-date'): every listing with
\* the dates non-increasing (the store orders equal dates as it likes)
NewestFirst(user) ==
    {p \in Listings({t \in transactions : t.user = user}) :
        \A i \in 1..Len(p) : \A j \in 1..Len(p) : i < j => DateLE(p[j].date, p[i].date)}

\* the contents export_transactions_to_csv(response, user) may write
export_transactions_to_csv(user) ==
    {<<writerow(HeaderRow)>> \o [i \in 1..Len(p) |-> writerow(ExportRow(p[i]))] :
        p \in NewestFirst(user)}

---------------------------------------------------------------------------
(* services.py: CSV import *)

\* `not row or all(cell.strip() == '' for cell in row)`
IsBlankRow(row) == row = <<>> \/ \A i \in 1..Len(row) : strip(row[i]) = <<>>

\* `len(row) < 4`
IsShortRow(row) == Len(row) < 4

\* (mutant) the amount is not among the required fields
RequiredMissing_without_amount(date_str, type_str, category_name, amount_str) ==
    date_str = <<>> \/ type_str = <<>> \/ category_name = <<>>

\* `not date_str or not type_str or not category_name or not amount_str`
RequiredMissing(date_str, type_str, category_name, amount_str) ==
    date_str = <<>> \/ type_str = <<>> \/ category_name = <<>> \/ amount_str = <<>>

\* (mutant) an unrecognized label is taken for the expense label
cat_type_else_expense(type_str) ==
    IF type_str = Dohod THEN [ok |-> TRUE, value |-> INCOME]
    ELSE [ok |-> TRUE, value |-> EXPENSE]

\* the if/elif/else on type_str: [ok, value]; ok = FALSE is the
\* ValidationError of the else branch
cat_type(type_str) ==
    IF type_str = Dohod THEN [ok |-> TRUE, value |-> INCOME]
    ELSE IF type_str = Rashod THEN [ok |-> TRUE, value |-> EXPENSE]
    ELSE [ok |-> FALSE, value |-> EXPENSE]

\* (mutant) the lookup is by name and user, whatever the type
get_or_create_by_name(cats, name, type, user) ==
    LET found == {c \in cats : c.name = name /\ c.user = user}
    IN  IF found = {}
        THEN [raised |-> FALSE,
              categories |-> cats \cup {[id |-> NextId(cats), name |-> name,
                                         type |-> type, user |-> user]},
              id |-> NextId(cats), created |-> TRUE]
        ELSE IF Cardinality(found) = 1
        THEN [raised |-> FALSE, categories |-> cats,
              id |-> (CHOOSE c \in found : TRUE).id, created |-> FALSE]
        ELSE [raised |-> TRUE, categories |-> cats, id |-> 0, created |-> FALSE]

\* Category.objects.get_or_create(name=, type=, user=) on a category table:
\* the table afterwards and the category's primary key
get_or_create(cats, name, type, user) ==
    LET found == {c \in cats : c.name = name /\ c.type = type /\ c.user = user}
    IN  IF found = {}
        THEN [raised |-> FALSE,
              categories |-> cats \cup {[id |-> NextId(cats), name |-> name,
                                         type |-> type, user |-> user]},
              id |-> NextId(cats), created |-> TRUE]
        ELSE IF Cardinality(found) = 1
        THEN [raised |-> FALSE, categories |-> cats,
              id |-> (CHOOSE c \in found : TRUE).id, created |-> FALSE]
        ELSE [raised |-> TRUE, categories |-> cats, id |-> 0, created |-> FALSE]

\* (mutant) the import runs in a transaction: a failure restores the tables
ImportEnd_rolled_back(raised, exception, count, cats, txs) ==
    [raised |-> raised, exception |-> exception, count |-> count,
     categories |-> IF raised THEN categories ELSE cats,
     transactions |-> IF raised THEN transactions ELSE txs]

\* how the loop over the rows ends: the value returned or the exception
\* raised, with the tables as they then are (nothing is rolled back)
ImportEnd(raised, exception, count, cats, txs) ==
    [raised |-> raised, exception |-> exception, count |-> count,
     categories |-> cats, transactions |-> txs]

\* the loop `for row in reader` from row i on
RECURSIVE ImportRows(_, _, _, _, _, _)
ImportRows(rows, i, user, cats, txs, count) ==
    IF i > Len(rows) THEN ImportEnd(FALSE, "", count, cats, txs)
    ELSE LET row == rows[i]
         IN  IF IsBlankRow(row) THEN ImportRows(rows, i + 1, user, cats, txs, count)
             ELSE IF IsShortRow(row) THEN ImportRows(rows, i + 1, user, cats, txs, count)
             ELSE IF Len(row) < 4 THEN ImportEnd(TRUE, "IndexError", count, cats, txs)
             ELSE
             LET date_str == strip(row[1])
                 type_str == strip(row[2])
                 category_name == strip(row[3])
                 amount_str == strip(row[4])
                 description == IF Len(row) > 4 THEN strip(row[5]) ELSE <<>>
             IN  IF RequiredMissing(date_str, type_str, category_name, amount_str)
                 THEN ImportRows(rows, i + 1, user, cats, txs, count)
                 ELSE IF ~cat_type(type_str).ok
                 THEN ImportEnd(TRUE, "ValidationError: unknown type", count, cats, txs)
                 ELSE
                 LET goc == get_or_create(cats, category_name, cat_type(type_str).value,
                                          user)
                     amount == Decimal(amount_str)
                     date == fromisoformat(date_str)
                 IN  IF goc.raised
                     THEN ImportEnd(TRUE, "MultipleObjectsReturned", count, cats, txs)
                     ELSE IF ~amount.ok
                     THEN ImportEnd(TRUE, "InvalidOperation", count, goc.categories, txs)
                     ELSE IF ~date.ok
                     THEN ImportEnd(TRUE, "ValueError", count, goc.categories, txs)
                     ELSE ImportRows(rows, i + 1, user, goc.categories,
                                     txs \cup {[id |-> NextId(txs),
                                                user |-> user,
                                                amount |-> amount.value,
                                                category |-> goc.id,
                                                description |-> description,
                                                date |-> date.value]},
                                     count + 1)

\* (mutant) the header is not skipped: the loop sees every row
RowsAfterHeader_all(rows) == rows

\* the rows the loop sees: next(reader) has taken the first one
RowsAfterHeader(rows) == Tail(rows)

\* (mutant) a file without rows is taken for a file without data rows
ImportInto_no_empty_check(cats, txs, content, user) ==
    LET rows == reader(content)
    IN  IF rows = <<>> THEN ImportEnd(FALSE, "", 0, cats, txs)
        ELSE ImportRows(RowsAfterHeader(rows), 1, user, cats, txs, 0)

\* import_transactions_from_csv(file, user) run on the given tables
ImportInto(cats, txs, content, user) ==
    LET rows == reader(content)
    IN  IF rows = <<>>
        THEN ImportEnd(TRUE, "ValidationError: empty file", 0, cats, txs)
        ELSE ImportRows(RowsAfterHeader(rows), 1, user, cats, txs, 0)

import_transactions_from_csv(content, user) ==
    ImportInto(categories, transactions, content, user)

---------------------------------------------------------------------------
(* views.py: CSV export and import *)

\* GET /export/csv/
export_csv(user) ==
    /\ Idle
    /\ \E content \in export_transactions_to_csv(user) :
          response' = [op |-> "export_csv", user |-> user, status |-> "ok",
                       content |-> content]
    /\ UNCHANGED <<categories, transactions, budgets, inflight>>

\* POST /import/csv/ with a file named *.csv
import_csv(user, content) ==
    /\ Idle
    /\ Cardinality(transactions) + Len(content) <= MaxTx + 1
    /\ LET r == import_transactions_from_csv(content, user)
       IN  /\ categories' = r.categories
           /\ transactions' = r.transactions
           /\ response' =
                 IF r.raised
                 THEN [op |-> "import_csv", user |-> user, status |-> "error",
                       message |-> r.exception, content |-> content]
                 ELSE [op |-> "import_csv", user |-> user, status |-> "redirect",
                       count |-> r.count, content |-> content]
    /\ UNCHANGED <<budgets, inflight>>

---------------------------------------------------------------------------
(* CSV: transactions are entered, exported and imported *)

\* a line as a client writes it: the fields joined by commas, nothing quoted
RECURSIVE RawLine(_)
RawLine(fields) ==
    IF Len(fields) = 0 THEN <<>>
    ELSE IF Len(fields) = 1 THEN fields[1]
    ELSE Join(fields[1], RawLine(Tail(fields)))

Padded(s) == <<" ">> \o s \o <<"\t">>

Blank == <<" ">>

\* 2024-12-01, 2024-12-31
DayA == strftime(Date(2024, 12, 1))
DayB == strftime(Date(2024, 12, 31))

\* rows that import as a transaction
LineSalary == RawLine(<<DayA, Dohod, NameZP, <<"1", "0", "0", ".", "0", "0">>, <<>>>>)
LinePadded ==
    RawLine(<<Padded(DayB), Padded(Rashod), Padded(NameEda), Padded(<<"2", ".", "5">>),
              Padded(<<"x">>)>>)

\* rows the importer skips
LineEmpty == <<>>
LineBlankCells == RawLine(<<Blank, <<>>, Blank, <<>>, Blank>>)
LineThreeFields == RawLine(<<DayA, Dohod, NameZP>>)
LineNoDate == RawLine(<<Blank, Rashod, NameTaxi, <<"5">>, <<>>>>)
LineNoType == RawLine(<<DayA, Blank, NameTaxi, <<"5">>, <<>>>>)
LineNoName == RawLine(<<DayA, Rashod, Blank, <<"5">>, <<>>>>)
LineNoAmount == RawLine(<<DayA, Rashod, NameTaxi, Blank, <<"x">>>>)

\* a row on which the import fails
LineBadAmount == RawLine(<<DayA, Rashod, NameTaxi, <<"a", "b", "c">>, <<>>>>)

SkippedLines ==
    {LineEmpty, LineBlankCells, LineThreeFields, LineNoDate, LineNoType, LineNoName,
     LineNoAmount}

DataLines == {LineSalary, LinePadded, LineBadAmount} \cup SkippedLines

\* the first line of an uploaded file: the header, or a line of data
FirstLines == {writerow(HeaderRow), LineSalary}

\* the files a client uploads: nothing at all, or a first line and up to
\* MaxRows further lines
UploadedFiles ==
    {<<>>} \cup
    {<<first>> \o body :
        first \in FirstLines,
        body \in UNION {[1..n -> DataLines] : n \in 0..MaxRows}}

CsvFormUsers == Users
CsvFormCategories == {1, 4}
CsvFormAmounts == {150}
CsvFormDates == {Date(2024, 12, 31)}
CsvFormDescriptions == {<<" ", "a", ",", "\"", "b", " ">>}

NextCsv ==
    \/ \E u \in CsvFormUsers, a \in CsvFormAmounts, c \in CsvFormCategories,
          s \in CsvFormDescriptions, d \in CsvFormDates :
          transaction_create(u, a, c, s, d)
    \/ \E u \in Users : export_csv(u)
    \/ \E u \in Users, content \in UploadedFiles : import_csv(u, content)
    \/ \E u \in Users, v \in Users :
          \E content \in export_transactions_to_csv(v) : import_csv(u, content)
    \/ Deliver

SpecCsv == Init /\ [][NextCsv]_vars

---------------------------------------------------------------------------
(* Properties of the CSV import *)

\* this step serves an import request
ImportStep == response = NoResponse /\ response'.op = "import_csv"

Owned(txs, user) == {t \in txs : t.user = user}

\* (date, type, category name, amount, description) of a transaction
TupleOf(t, cats) ==
    LET c == CHOOSE c \in cats : c.id = t.category
    IN  <<t.date, c.type, c.name, t.amount, t.description>>

\* the collection of a user's tuples: each tuple with the number of
\* transactions that carry it
TupleBag(txs, cats, user) ==
    LET own == Owned(txs, user)
    IN  [x \in {TupleOf(t, cats) : t \in own} |->
            Cardinality({t \in own : TupleOf(t, cats) = x})]

\* C8: round trip: when a user with no transactions imports a file that
\* export_transactions_to_csv wrote for some user, the import succeeds, and
\* the importer's (date, type, category name, amount, description) tuples
\* are then the exporter's, each as many times; the category of every
\* imported transaction has the original's name and type and is the
\* importer's own.
C8_ExportImportRoundTrip ==
    [][ImportStep =>
          \A v \in Users :
             (/\ response'.content \in export_transactions_to_csv(v)
              /\ Owned(transactions, response'.user) = {}) =>
                /\ response'.status = "redirect"
                /\ response'.count = Cardinality(Owned(transactions, v))
                /\ TupleBag(transactions', categories', response'.user) =
                      TupleBag(transactions, categories, v)
                /\ \A t \in Owned(transactions', response'.user) :
                      (CHOOSE c \in categories' : c.id = t.category).user = response'.user
       ]_vars

\* a user has imported the export of another user into an empty account: it
\* held a transaction whose description needs quoting in CSV
C8_Witness ==
    /\ response.op = "import_csv"
    /\ response.status = "redirect"
    /\ response.count >= 1
    /\ Cardinality(Owned(transactions, response.user)) = response.count
    /\ \E v \in Users \ {response.user} :
          /\ response.content \in export_transactions_to_csv(v)
          /\ \E t \in Owned(transactions, v) :
                \E i \in 1..Len(t.description) : t.description[i] = ","

\* a string of whitespace only (or empty)
IsBlank(s) == \A i \in 1..Len(s) : s[i] \in Whitespace

\* a row the importer has to skip: fully blank, fewer than 4 fields, or an
\* empty date, type, category name or amount after trimming
Skippable(row) ==
    \/ \A i \in 1..Len(row) : IsBlank(row[i])
    \/ Len(row) < 4
    \/ \E i \in 1..4 : IsBlank(row[i])

NotSkippable(row) == ~Skippable(row)

\* what a row that is not skipped stands for
RowTuple(row) ==
    <<fromisoformat(strip(row[1])).value,
      IF strip(row[2]) = Dohod THEN INCOME ELSE EXPENSE,
      strip(row[3]),
      Decimal(strip(row[4])).value,
      IF Len(row) >= 5 THEN strip(row[5]) ELSE <<>>>>

\* C9: a successful import never parses the first row as data, inserts
\* exactly one transaction, owned by the importing user, for each valid data
\* row after it (in the rows' order, with the row's values), and returns the
\* number of transactions it inserted.
C9_ImportCountsInsertedRows ==
    [][(ImportStep /\ response'.status = "redirect") =>
          \A u \in {response'.user} :
          \A rows \in {reader(response'.content)} :
          \A valid \in {IF rows = <<>> THEN <<>> ELSE SelectSeq(Tail(rows), NotSkippable)} :
          \A new \in {transactions' \ transactions} :
              /\ rows # <<>>
              /\ transactions \subseteq transactions'
              /\ response'.count = Len(valid)
              /\ Cardinality(new) = response'.count
              /\ Cardinality(Owned(transactions', u)) =
                    Cardinality(Owned(transactions, u)) + response'.count
              /\ \A k \in 1..Len(valid) : \E t \in new :
                    /\ t.id = NextId(transactions) + k - 1
                    /\ t.user = u
                    /\ TupleOf(t, categories') = RowTuple(valid[k])
       ]_vars

\* an import of two data rows succeeded although the file's first row was a
\* row of data too: two transactions, not three
C9_Witness ==
    /\ response.op = "import_csv"
    /\ response.status = "redirect"
    /\ Len(response.content) = 3
    /\ response.content[1] = LineSalary
    /\ response.count = 2
    /\ Cardinality(transactions) = 2

\* the file without the data lines whose rows the importer has to skip
WithoutSkippable(content) ==
    LET Keep(line) == ~Skippable(ReadLine(line))
    IN  IF content = <<>> THEN <<>>
        ELSE <<content[1]>> \o SelectSeq(Tail(content), Keep)

\* C10: a data row that is fully blank, has fewer than 4 fields, or has an
\* empty date, type, category name or amount after trimming is skipped: it
\* raises nothing, inserts no transaction, creates no category, is not
\* counted, and the rows after it are processed as if it were not there; so
\* every import ends as the import of the same file without those rows
\* would, and a file whose data rows are all of that kind imports 0
\* transactions and changes nothing.
C10_SkippedRowsLeaveNoTrace ==
    [][ImportStep =>
          \A u \in {response'.user} :
          \A content \in {response'.content} :
          \A r \in {ImportInto(categories, transactions, WithoutSkippable(content), u)} :
              /\ categories' = r.categories
              /\ transactions' = r.transactions
              /\ (response'.status = "error") = r.raised
              /\ response'.status = "redirect" => response'.count = r.count
              /\ response'.status = "error" => response'.message = r.exception
              /\ (content # <<>> /\ Len(WithoutSkippable(content)) = 1) =>
                    /\ response'.status = "redirect"
                    /\ response'.count = 0
                    /\ categories' = categories
                    /\ transactions' = transactions
       ]_vars

\* an import has skipped a row and imported the row after it
C10_Witness ==
    /\ response.op = "import_csv"
    /\ response.status = "redirect"
    /\ Len(response.content) = 3
    /\ response.content[2] \in SkippedLines
    /\ response.content[3] = LinePadded
    /\ response.count = 1
    /\ Cardinality(transactions) = 1

---------------------------------------------------------------------------
(* forms.py, views.py: categories and the deletion of a transaction *)

\* CategoryForm(data).is_valid(): name is a required CharField (stripped),
\* type one of TYPE_CHOICES; user is not a field of the form, so the form
\* does not check unique_together
CategoryFormValid(name, type) == strip(name) # <<>> /\ type \in {INCOME, EXPENSE}

\* Category.Meta.unique_together = ('name', 'user', 'type'): whether the store
\* refuses the insert of a row (IntegrityError)
CategoryUniqueViolation(row) ==
    \E c \in categories :
        c.name = row.name /\ c.user = row.user /\ c.type = row.type

\* POST /categories/create/
category_create(user, name, type) ==
    /\ Idle
    /\ IF CategoryFormValid(name, type)
       THEN LET category == [id |-> NextId(categories), name |-> strip(name),
                             type |-> type, user |-> user]
            IN  IF CategoryUniqueViolation(category)
                THEN /\ categories' = categories
                     /\ response' = [op |-> "category_create", user |-> user,
                                     status |-> "error", message |-> "IntegrityError",
                                     name |-> category.name, type |-> type]
                ELSE /\ categories' = categories \cup {category}
                     /\ response' = [op |-> "category_create", user |-> user,
                                     status |-> "redirect",
                                     name |-> category.name, type |-> type]
       ELSE /\ categories' = categories
            /\ response' = [op |-> "category_create", user |-> user,
                            status |-> "form_errors"]
    /\ UNCHANGED <<transactions, budgets, inflight>>

\* (mutant) the lookup does not ask for the owner
get_object_or_404_any_owner(pk, user) == {t \in transactions : t.id = pk}

\* get_object_or_404(Transaction, pk=pk, user=request.user): the row, or none
\* (Http404)
get_object_or_404(pk, user) == {t \in transactions : t.id = pk /\ t.user = user}

\* GET or POST /transactions/<pk>/delete/
transaction_delete(user, pk, method) ==
    /\ Idle
    /\ LET found == get_object_or_404(pk, user)
       IN  IF found = {}
           THEN /\ transactions' = transactions
                /\ response' = [op |-> "transaction_delete", user |-> user, pk |-> pk,
                                method |-> method, status |-> "404"]
           ELSE IF method = "POST"
           THEN /\ transactions' = transactions \ found
                /\ response' = [op |-> "transaction_delete", user |-> user, pk |-> pk,
                                method |-> method, status |-> "redirect"]
           ELSE /\ transactions' = transactions
                /\ response' = [op |-> "transaction_delete", user |-> user, pk |-> pk,
                                method |-> method, status |-> "confirm"]
    /\ UNCHANGED <<categories, budgets, inflight>>

---------------------------------------------------------------------------
(* CSV import: files with rows that fail, and categories created by form *)

NameNew == <<"N">>

\* 'доход': the income label in lower case
LowerDohod == <<"d", "o", "h", "o", "d">>

\* a row of income under the name of an expense category
LineIncomeEda == RawLine(<<DayA, Dohod, NameEda, <<"7">>, <<>>>>)

\* rows on which the import fails: month 13, and a type label that is neither
LineBadDate ==
    RawLine(<<<<"2", "0", "2", "4", "-", "1", "3", "-", "0", "1">>, Dohod, NameZP,
              <<"5">>, <<>>>>)
LineUnknownType == RawLine(<<DayA, LowerDohod, NameNew, <<"5">>, <<>>>>)

ImportLines ==
    {LineIncomeEda, LinePadded, LineBadAmount, LineBadDate, LineUnknownType, LineNoAmount}

\* the files uploaded: nothing at all, or the header and up to MaxRows lines
ImportFiles ==
    {<<>>} \cup
    {<<writerow(HeaderRow)>> \o body :
        body \in UNION {[1..n -> ImportLines] : n \in 0..MaxRows}}

ImportUsers == {"u2"}
CategoryFormNames == {Padded(NameEda), Blank}
CategoryFormTypes == {INCOME, EXPENSE}

NextImport ==
    \/ \E u \in ImportUsers, content \in ImportFiles : import_csv(u, content)
    \/ \E u \in Users, name \in CategoryFormNames, type \in CategoryFormTypes :
          category_create(u, name, type)
    \/ Deliver

SpecImport == Init /\ [][NextImport]_vars

---------------------------------------------------------------------------
(* Properties of the failing imports *)

KnownType(row) == strip(row[2]) \in {Dohod, Rashod}

\* a decimal numeral: an optional sign, then digits with at most one '.'
\* among them
IsAmountString(s) ==
    LET t == IF s # <<>> /\ s[1] \in {"+", "-"} THEN Tail(s) ELSE s
        dots == {i \in 1..Len(t) : t[i] = "."}
    IN  /\ Cardinality(dots) <= 1
        /\ Len(t) > Cardinality(dots)
        /\ \A i \in (1..Len(t)) \ dots : IsDigit(t[i])

\* YYYY-MM-DD of a day of the calendar
IsDateString(s) ==
    /\ Len(s) = 10
    /\ \A i \in 1..10 : IF i \in {5, 8} THEN s[i] = "-" ELSE IsDigit(s[i])
    /\ LET y == DigitsToNat(SubSeq(s, 1, 4))
           m == DigitsToNat(SubSeq(s, 6, 7))
           d == DigitsToNat(SubSeq(s, 9, 10))
       IN  y >= 1 /\ m \in 1..12 /\ d \in 1..DaysInMonth(y, m)

\* a row that is not skipped, with a known type label and an amount and a
\* date that are well formed
Valid(row) ==
    /\ NotSkippable(row)
    /\ KnownType(row)
    /\ IsAmountString(strip(row[4]))
    /\ IsDateString(strip(row[1]))

\* a row that is not skipped, with a known type label, whose amount or date
\* is malformed
Malformed(row) ==
    /\ NotSkippable(row)
    /\ KnownType(row)
    /\ ~(IsAmountString(strip(row[4])) /\ IsDateString(strip(row[1])))

\* a row that is not skipped whose type label is neither of the two
UnknownType(row) == NotSkippable(row) /\ ~KnownType(row)

\* the index of the first row that is neither skipped nor valid, 0 if none
FirstStop(rows) ==
    LET stops == {k \in 1..Len(rows) : NotSkippable(rows[k]) /\ ~Valid(rows[k])}
    IN  IF stops = {} THEN 0 ELSE CHOOSE k \in stops : \A j \in stops : k <= j

\* the rows before row k that are not skipped
NotSkippedBefore(rows, k) == SelectSeq(SubSeq(rows, 1, k - 1), NotSkippable)

\* the new transactions are those of the given rows, one each, in their order
InsertedExactly(before, u) ==
    LET new == transactions' \ transactions
    IN  /\ transactions \subseteq transactions'
        /\ Cardinality(new) = Len(before)
        /\ \A j \in 1..Len(before) : \E t \in new :
              /\ t.id = NextId(transactions) + j - 1
              /\ t.user = u
              /\ TupleOf(t, categories') = RowTuple(before[j])

\* every new category is the user's and carries the name and type of one of
\* the first k rows, which is not skipped
CategoriesOnlyFrom(rows, k, u) ==
    /\ categories \subseteq categories'
    /\ \A c \in categories' \ categories :
          /\ c.user = u
          /\ \E j \in 1..k :
                /\ NotSkippable(rows[j])
                /\ KnownType(rows[j])
                /\ c.name = strip(rows[j][3])
                /\ c.type = (IF strip(rows[j][2]) = Dohod THEN INCOME ELSE EXPENSE)

\* C11: each valid row inserts one transaction; a data row whose amount or
\* date string is malformed makes the import fail with a parse error
\* (decimal.InvalidOperation or ValueError) and aborts it: the transactions
\* inserted are those of the valid rows before it, the row itself inserts
\* none, and no row after it is processed (none inserts a transaction or
\* creates a category).
C11_MalformedRowAbortsImport ==
    [][(ImportStep /\ response'.content # <<>>) =>
          \A u \in {response'.user} :
          \A rows \in {Tail(reader(response'.content))} :
          \A k \in {FirstStop(rows)} :
              /\ k = 0 =>
                    /\ response'.status = "redirect"
                    /\ InsertedExactly(SelectSeq(rows, Valid), u)
              /\ (k # 0 /\ Malformed(rows[k])) =>
                    /\ response'.status = "error"
                    /\ response'.message \in {"InvalidOperation", "ValueError"}
                    /\ response'.message = "InvalidOperation" <=>
                          ~IsAmountString(strip(rows[k][4]))
                    /\ InsertedExactly(NotSkippedBefore(rows, k), u)
                    /\ CategoriesOnlyFrom(rows, k, u)
       ]_vars

\* an import failed on a row with a malformed date; the valid row after it
\* was not imported
C11_Witness ==
    /\ response.op = "import_csv"
    /\ response.status = "error"
    /\ response.message = "ValueError"
    /\ Len(response.content) = 3
    /\ response.content[2] = LineBadDate
    /\ response.content[3] = LinePadded
    /\ transactions = {}

\* C12: the import fails with the unrecognized-type error (ValidationError)
\* when the trimmed type of a data row that is not skipped is neither
\* 'Доход' nor 'Расход'; that row creates no category and no transaction,
\* and no later row is processed.
C12_UnknownTypeAbortsImport ==
    [][(ImportStep /\ response'.content # <<>>) =>
          \A u \in {response'.user} :
          \A rows \in {Tail(reader(response'.content))} :
          \A k \in {FirstStop(rows)} :
              (k # 0 /\ UnknownType(rows[k])) =>
                 /\ response'.status = "error"
                 /\ response'.message = "ValidationError: unknown type"
                 /\ InsertedExactly(NotSkippedBefore(rows, k), u)
                 /\ CategoriesOnlyFrom(rows, k - 1, u)
                 /\ \A c \in categories' : c.name = strip(rows[k][3]) => c \in categories
       ]_vars

\* an import imported a row and then failed on a row with the income label in
\* lower case, under a category name the store does not hold
C12_Witness ==
    /\ response.op = "import_csv"
    /\ response.status = "error"
    /\ response.message = "ValidationError: unknown type"
    /\ Len(response.content) = 3
    /\ response.content[2] = LineIncomeEda
    /\ response.content[3] = LineUnknownType
    /\ Cardinality(transactions) = 1
    /\ \A c \in categories : c.name # NameNew

\* C13: the import of a file with no rows at all fails with the empty-input
\* error (ValidationError) and leaves the store as it was; the import of a
\* file with a header row only does not fail and returns 0.
C13_EmptyFileFailsHeaderOnlyReturnsZero ==
    [][ImportStep =>
          /\ response'.content = <<>> =>
                /\ response'.status = "error"
                /\ response'.message = "ValidationError: empty file"
                /\ categories' = categories
                /\ transactions' = transactions
                /\ budgets' = budgets
          /\ Len(response'.content) = 1 =>
                /\ response'.status = "redirect"
                /\ response'.count = 0
                /\ categories' = categories
                /\ transactions' = transactions
                /\ budgets' = budgets
       ]_vars

\* the import of an empty file into a store that holds transactions failed
C13_Witness ==
    /\ response.op = "import_csv"
    /\ response.status = "error"
    /\ response.message = "ValidationError: empty file"
    /\ response.content = <<>>
    /\ transactions # {}


---------------------------------------------------------------------------
(* Properties of the categories *)

WithKey(cats, name, type, user) ==
    {c \in cats : c.name = name /\ c.type = type /\ c.user = user}

\* the (name, type) keys of the rows that reach get_or_create: the rows that
\* are not skipped, up to the row on which the import stops (that row too
\* when its type label is known)
KeysResolved(rows) ==
    LET k == FirstStop(rows)
        last == IF k = 0 THEN Len(rows)
                ELSE IF KnownType(rows[k]) THEN k ELSE k - 1
    IN  {<<strip(rows[j][3]), IF strip(rows[j][2]) = Dohod THEN INCOME ELSE EXPENSE>> :
            j \in {i \in 1..last : NotSkippable(rows[i])}}

\* C14: category resolution during import is get-or-create keyed on
\* (name, type, owner): a row whose (trimmed name, type) exists for the user
\* reuses that category and creates none, a key that does not exist is
\* created once (so the same name imported with the two types yields two
\* distinct categories), every imported transaction refers to the category
\* of its row's key, and after any sequence of imports and category
\* creations no two categories share (name, owner, type).
C14_CategoryGetOrCreate ==
    [][/\ \A c \in categories' : WithKey(categories', c.name, c.type, c.user) = {c}
       /\ (ImportStep /\ response'.content # <<>>) =>
             \A u \in {response'.user} :
             \A rows \in {Tail(reader(response'.content))} :
             \A keys \in {KeysResolved(rows)} :
                /\ categories \subseteq categories'
                /\ \A key \in keys :
                      /\ Cardinality(WithKey(categories', key[1], key[2], u)) = 1
                      /\ WithKey(categories, key[1], key[2], u) # {} =>
                            WithKey(categories', key[1], key[2], u) =
                               WithKey(categories, key[1], key[2], u)
                /\ \A c \in categories' \ categories :
                      c.user = u /\ <<c.name, c.type>> \in keys
                /\ \A t \in transactions' \ transactions :
                      \E c \in categories' : c.id = t.category /\ c.user = u
      ]_vars

\* a user imported the same name once as income and once as expense: the
\* expense category existed and was reused, the income category was created,
\* and another user holds a category of the same name and type
C14_Witness ==
    /\ response.op = "import_csv"
    /\ response.status = "redirect"
    /\ response.count = 2
    /\ \E i \in WithKey(categories, NameEda, INCOME, "u2") :
       \E x \in WithKey(categories, NameEda, EXPENSE, "u2") :
          /\ x.id = 4
          /\ i.id > 4
          /\ \E t \in transactions : t.category = i.id
          /\ \E t \in transactions : t.category = x.id
    /\ WithKey(categories, NameEda, EXPENSE, "u1") # {}


---------------------------------------------------------------------------
(* Properties of the CSV export *)

\* C15: export_transactions_to_csv writes the fixed five-column header row
\* first and then exactly one row per transaction of the given user (none of
\* another user), newest date first (dates non-increasing), with the type
\* written as 'Доход' when the category's type is income and 'Расход'
\* otherwise, and the description written as the empty string when there is
\* none.
C15_ExportHeaderAndRows ==
    response.op = "export_csv" =>
        \A u \in {response.user} :
        \A rows \in {reader(response.content)} :
        \A own \in {Owned(transactions, u)} :
            /\ Len(rows) = 1 + Cardinality(own)
            /\ rows[1] = HeaderRow
            /\ Len(HeaderRow) = 5
            /\ \E p \in Listings(own) :
                  \A i \in 1..Len(p) :
                     /\ Len(rows[i + 1]) = 5
                     /\ fromisoformat(rows[i + 1][1]) = [ok |-> TRUE, value |-> p[i].date]
                     /\ rows[i + 1][2] =
                           (IF CategoryOf(p[i]).type = INCOME THEN Dohod ELSE Rashod)
                     /\ rows[i + 1][3] = CategoryOf(p[i]).name
                     /\ Decimal(rows[i + 1][4]) = [ok |-> TRUE, value |-> p[i].amount]
                     /\ rows[i + 1][5] = p[i].description
                     /\ p[i].description = <<>> =>
                           response.content[i + 1][Len(response.content[i + 1])] = ","
            /\ \A i \in 2..(Len(rows) - 1) :
                  DateLE(fromisoformat(rows[i + 1][1]).value,
                         fromisoformat(rows[i][1]).value)

\* an export of two transactions of different dates, the older one of income
\* without a description, the newer one of expense
C15_Witness ==
    /\ response.op = "export_csv"
    /\ Len(response.content) = 3
    /\ reader(response.content)[2][1] = DayB
    /\ reader(response.content)[3][1] = DayA
    /\ reader(response.content)[3][2] = Dohod
    /\ reader(response.content)[3][5] = <<>>
    /\ reader(response.content)[2][2] = Rashod


---------------------------------------------------------------------------
(* The store: transactions are entered by form and by import, and deleted *)

MaxTxId == 3        \* primary keys of core_transaction handed out

\* the submitted categories are both of user u1: valid for u1, foreign to u2
StoreAmounts == {-100, 0, 150}
StoreCategories == {1, 2}
StoreDates == {Date(2024, 12, 31)}
StoreFiles == {<<writerow(HeaderRow), LineSalary>>}
StorePks == 1..MaxTxId
Methods == {"GET", "POST"}

NextStore ==
    \/ \E u \in Users, a \in StoreAmounts, c \in StoreCategories, d \in StoreDates :
          /\ NextId(transactions) <= MaxTxId
          /\ transaction_create(u, a, c, <<>>, d)
    \/ \E u \in Users, content \in StoreFiles :
          /\ NextId(transactions) <= MaxTxId
          /\ import_csv(u, content)
    \/ \E u \in Users, pk \in StorePks, method \in Methods :
          transaction_delete(u, pk, method)
    \/ budget_list("u1", 1, 100, Date(2024, 12, 1))
    \/ Deliver

SpecStore == Init /\ [][NextStore]_vars

\* C16: every stored transaction references a category owned by the same
\* user, after any sequence of transaction_create submissions, CSV imports
\* and deletions by any users.
C16_CategoryOwnedByTransactionOwner ==
    \A t \in transactions :
        \E c \in categories : c.id = t.category /\ c.user = t.user

\* a user who holds an imported transaction, under a category the import
\* created, has submitted a transaction under a category of the other user
\* and has been turned down
C16_Witness ==
    /\ response.op = "transaction_create"
    /\ response.user = "u2"
    /\ response.status = "form_errors"
    /\ \E t \in transactions :
          /\ t.user = "u2"
          /\ \E c \in categories \ SetUpCategories : c.id = t.category

\* C18: a transaction submission whose amount is zero or negative is rejected
\* by validation before any write: transaction_create leaves the store
\* unchanged, and no transaction it creates has a non-positive amount.
C18_NonPositiveAmountRejected ==
    [][/\ \A u \in Users, a \in StoreAmounts, c \in StoreCategories, d \in StoreDates :
             (a <= 0 /\ transaction_create(u, a, c, <<>>, d)) =>
                /\ response'.status = "form_errors"
                /\ transactions' = transactions
                /\ categories' = categories
                /\ budgets' = budgets
       /\ (Idle /\ response'.op = "transaction_create") =>
             \A t \in transactions' \ transactions : t.amount > 0
      ]_vars

\* a submission of user u1 was turned down while the store holds
\* transactions; the categories submitted are u1's own, so it is the amount
\* that was not positive
C18_Witness ==
    /\ response.op = "transaction_create"
    /\ response.user = "u1"
    /\ response.status = "form_errors"
    /\ StoreCategories \subseteq {c.id : c \in TransactionFormQueryset("u1")}
    /\ transactions # {}

\* C19: transaction_delete removes a transaction only on a POST by its owner:
\* a GET leaves the store unchanged, a request that names a transaction of
\* another user (or none) is answered 404 and leaves it in place, and the
\* owner's POST removes exactly that transaction and no other transaction,
\* category or budget; no transaction leaves the store in any other way.
C19_DeleteOnlyByOwnerPost ==
    [][/\ (Idle /\ response'.op = "transaction_delete") =>
             \A u \in {response'.user} :
             \A target \in {{t \in transactions : t.id = response'.pk}} :
                /\ categories' = categories
                /\ budgets' = budgets
                /\ IF \E t \in target : t.user = u
                   THEN IF response'.method = "POST"
                        THEN /\ response'.status = "redirect"
                             /\ transactions' = transactions \ target
                             /\ Cardinality(transactions') = Cardinality(transactions) - 1
                        ELSE /\ response'.status = "confirm"
                             /\ transactions' = transactions
                   ELSE /\ response'.status = "404"
                        /\ transactions' = transactions
       /\ \A t \in transactions \ transactions' :
             /\ response'.op = "transaction_delete"
             /\ response'.method = "POST"
             /\ response'.user = t.user
             /\ response'.pk = t.id
      ]_vars

\* the owner's POST has removed a transaction; a transaction of the other
\* user, a budget and the categories are still there
C19_Witness ==
    /\ response.op = "transaction_delete"
    /\ response.status = "redirect"
    /\ \A t \in transactions : t.id # response.pk
    /\ \E t \in transactions : t.user # response.user
    /\ budgets # {}


---------------------------------------------------------------------------
(* Properties of the budget month *)

SameMonth(a, b) == a.year = b.year /\ a.month = b.month

\* C17: the budget month is normalized to day 1 on every write: every budget
\* row written through budget_list has a month whose day is 1 whatever day
\* was submitted (2024-12-15 is stored as 2024-12-01), so that submissions
\* for different days of one month and one category address the same row.
C17_BudgetMonthIsFirstDay ==
    [][/\ \A b \in budgets' : b.month.day = 1
       /\ (BudgetPosted' /\ response' # response) =>
             \A u \in {response'.user} :
             \A c \in {response'.category} :
             \A m \in {response'.submitted} :
             \A rows \in {{b \in budgets' :
                             b.user = u /\ b.category = c /\ SameMonth(b.month, m)}} :
                /\ response'.status = "redirect"
                /\ \E b \in rows :
                      /\ rows = {b}
                      /\ b.month = Date(m.year, m.month, 1)
                      /\ b.amount = response'.amount
                /\ response'.message = "updated" <=>
                      \E b \in budgets :
                         b.user = u /\ b.category = c /\ SameMonth(b.month, m)
                /\ response'.message = "updated" =>
                      Cardinality(budgets') = Cardinality(budgets)
      ]_vars

\* a budget submitted for the 15th has updated the row of its month, whose
\* month is the 1st
C17_Witness ==
    /\ response.op = "budget_list"
    /\ response.status = "redirect"
    /\ response.message = "updated"
    /\ response.submitted = Date(2024, 12, 15)
    /\ budgets = {[id |-> 1, user |-> response.user, category |-> response.category,
                   amount |-> response.amount, month |-> Date(2024, 12, 1)]}


---------------------------------------------------------------------------
(* views.py: budget_list served by two worker processes at once.  Each       *)
(* statement sent to the store is atomic; between the SELECT of              *)
(* filter(...).first() and the UPDATE or INSERT of save() the other worker   *)
(* may run.                                                                  *)

BudgetKeyOf(r) == <<r.user, r.category, r.month>>

\* the keys of the requests being served
InflightKeys == {BudgetKeyOf(inflight[w]) : w \in {v \in Workers : inflight[v].pc # "none"}}

\* POST /budgets/ up to and including the SELECT: form validation,
\* form.save(commit=False), filter(...).first()
budget_list_select(w, user, category, amount, month) ==
    /\ inflight[w] = NoRequest
    /\ Cardinality(BudgetKeys \cup InflightKeys \cup {<<user, category, clean_month(month)>>})
          <= MaxBudgets
    /\ inflight' =
          [inflight EXCEPT ![w] =
              [pc |-> IF BudgetFormValid(user, category, amount, month)
                      THEN "selected" ELSE "done",
               user |-> user, category |-> category, amount |-> amount,
               month |-> clean_month(month),
               existing |-> IF BudgetFormValid(user, category, amount, month)
                            THEN ExistingBudget(user, category, clean_month(month))
                            ELSE {},
               message |-> IF BudgetFormValid(user, category, amount, month)
                           THEN "" ELSE "form_errors"]]
    /\ UNCHANGED <<categories, transactions, budgets, response>>

\* the rest of the POST: existing.save() (UPDATE of the row with existing's
\* primary key, every column taken from the object read earlier) or
\* budget.save() (INSERT, refused by the store when the key is taken)
budget_list_save(w) ==
    /\ inflight[w].pc = "selected"
    /\ LET r == inflight[w]
           budget == [id |-> NextId(budgets), user |-> r.user, category |-> r.category,
                      amount |-> r.amount, month |-> r.month]
       IN  IF r.existing # {}
           THEN /\ budgets' =
                      {IF \E e \in r.existing : e.id = b.id
                       THEN [id |-> b.id, user |-> r.user, category |-> r.category,
                             amount |-> r.amount, month |-> r.month]
                       ELSE b : b \in budgets}
                /\ inflight' = [inflight EXCEPT ![w].pc = "done", ![w].message = "updated"]
           ELSE IF BudgetUniqueViolation(budget)
           THEN /\ budgets' = budgets
                /\ inflight' = [inflight EXCEPT ![w].pc = "done",
                                                ![w].message = "IntegrityError"]
           ELSE /\ budgets' = budgets \cup {budget}
                /\ inflight' = [inflight EXCEPT ![w].pc = "done", ![w].message = "set"]
    /\ UNCHANGED <<categories, transactions, response>>

\* the worker sends its response and is free for the next request
budget_list_return(w) ==
    /\ inflight[w].pc = "done"
    /\ inflight' = [inflight EXCEPT ![w] = NoRequest]
    /\ UNCHANGED <<categories, transactions, budgets, response>>

ConcurrentCategories == {1, 4}
ConcurrentAmounts == {100, 200}
ConcurrentMonths == {Date(2024, 12, 1), Date(2024, 12, 15)}

NextConcurrent ==
    \/ \E w \in Workers, u \in Users, c \in ConcurrentCategories,
          a \in ConcurrentAmounts, m \in ConcurrentMonths :
          budget_list_select(w, u, c, a, m)
    \/ \E w \in Workers : budget_list_save(w)
    \/ \E w \in Workers : budget_list_return(w)

SpecConcurrent == Init /\ [][NextConcurrent]_vars

\* both workers have finished a valid POST for one key and neither has
\* answered yet
BothDone(key) ==
    \A w \in Workers :
        /\ inflight[w].pc = "done"
        /\ inflight[w].message # "form_errors"
        /\ BudgetKeyOf(inflight[w]) = key

\* C20: under any interleaving of two concurrent budget_list POSTs for the
\* same (owner, category, month), each looking up the existing row and then
\* updating it or inserting a new one without locking, the store never holds
\* two budget rows for one key, and once both have finished the row of the
\* key holds the amount of one of the two submissions.
C20_ConcurrentUpsertKeepsOneRow ==
    /\ Cardinality(budgets) = Cardinality(BudgetKeys)
    /\ \A key \in InflightKeys :
          BothDone(key) =>
             \E b \in budgets :
                /\ BudgetKeyOf(b) = key
                /\ \E w \in Workers : b.amount = inflight[w].amount

\* two POSTs for one key with different amounts both found no row; the first
\* inserted its row, the insert of the second was refused by the store; the
\* row holds the first one's amount
C20_Witness ==
    /\ \E key \in InflightKeys : BothDone(key)
    /\ inflight["w1"].amount # inflight["w2"].amount
    /\ \E w \in Workers : inflight[w].message = "IntegrityError"
    /\ \E w \in Workers :
          /\ inflight[w].message = "set"
          /\ \E b \in budgets : b.amount = inflight[w].amount
    /\ Cardinality(budgets) = 1


---------------------------------------------------------------------------
(* Properties of a failed import *)

\* C21: an import that fails at data row k is not rolled back: afterwards the
\* store is the store before the import plus exactly the transactions of the
\* valid rows before row k and the categories get-or-created for them; no
\* transaction of row k or of a later row exists; and when the failure is a
\* malformed amount or date, the category of row k has been get-or-created
\* although row k inserted no transaction.
C21_FailedImportIsNotRolledBack ==
    [][(ImportStep /\ response'.status = "error" /\ response'.content # <<>>) =>
          \A u \in {response'.user} :
          \A rows \in {Tail(reader(response'.content))} :
          \A k \in {FirstStop(rows)} :
          \A keys \in {KeysResolved(rows)} :
          \A created \in {categories' \ categories} :
             /\ k # 0
             /\ InsertedExactly(NotSkippedBefore(rows, k), u)
             /\ categories \subseteq categories'
             /\ \A c \in created : c.user = u
             /\ {<<c.name, c.type>> : c \in created} =
                   {key \in keys : WithKey(categories, key[1], key[2], u) = {}}
             /\ Cardinality(created) = Cardinality({<<c.name, c.type>> : c \in created})
             /\ budgets' = budgets
             /\ Malformed(rows[k]) =>
                   Cardinality(WithKey(categories', strip(rows[k][3]),
                                       IF strip(rows[k][2]) = Dohod THEN INCOME ELSE EXPENSE,
                                       u)) = 1
             /\ UnknownType(rows[k]) =>
                   \A c \in created : \E t \in transactions' \ transactions :
                      t.category = c.id
       ]_vars

\* an import inserted the transaction of its first data row and failed on
\* the malformed amount of the second: the first row's transaction is in
\* the store, and so is the second row's category, new to the user, with no
\* transaction under it
C21_Witness ==
    /\ response.op = "import_csv"
    /\ response.status = "error"
    /\ response.message = "InvalidOperation"
    /\ Len(response.content) = 3
    /\ response.content[2] = LinePadded
    /\ response.content[3] = LineBadAmount
    /\ Cardinality(transactions) = 1
    /\ \E c \in WithKey(categories, NameTaxi, EXPENSE, response.user) :
          /\ c \notin SetUpCategories
          /\ \A t \in transactions : t.category # c.id

===========================================================================
